---- MODULE Spec2Model ----
(***************************************************************************)
(* A model of the src-server HTTP service: GET /health and GET /src of     *)
(* src/src/server.js (archive kept beside the working copy, named by the   *)
(* revision) and of src/src/app.js (archive in the temporary folder, named *)
(* by the revision and a nanoid).  Every await of the /src handler is a    *)
(* suspension point, so every awaited call is one action per request; tar  *)
(* and res.download, which take time on a file other requests can see, are *)
(* two actions each.                                                       *)
(***************************************************************************)
EXTENDS Integers, Sequences, FiniteSets, TLC

\* ------------------------------------------------------------------ bounds
\* Number of GET /src requests of a run.
NumReq == 2
\* Number of commits pushed to the remote branch during a run.
MaxRev == 1

Requests == 1..NumReq
Revs == 0..MaxRev

\* ------------------------------------------------------------ configuration
\* The two /src handlers of the repository.
Variants == {"server", "app"}
\* The routes of both.
Routes == {"/health", "/src"}

TOKEN == "test-token"
BRANCH_NAME == "main"

\* req.headers.auth: no header at all, an empty one, a wrong one, the token.
Undefined == "<undefined>"
Headers == {Undefined, "", "wrong-token", TOKEN}

\* Directories, as sequences of path segments ("/" first when absolute).
RepoDir == <<"/", "home", "user", "repo">>
BadDir == <<"/", "nonexistent", "path">>
ServiceDir == <<"/", "opt", "src-server">>
tempFolder == <<"/", "tmp">>

\* Values of SRC_FOLDER: a relative name, an absolute path, the whole repo.
SrcFolders == {<<"src">>, RepoDir \o <<"src">>, <<".">>}
\* Working directories the node process may be started in.
Cwds == {RepoDir, ServiceDir}

\* The environment variables the service requires, and what the environment
\* may hold for each at startup: nothing, the empty string, or a value.
requiredEnvVars == {"GIT_REPO_PATH", "BRANCH_NAME", "SRC_FOLDER", "TOKEN"}
EnvStates == {"absent", "empty", "set"}
Envs == [requiredEnvVars -> EnvStates]
AllSet == [key \in requiredEnvVars |-> "set"]

\* nanoid(): a random string; two calls may return the same one.  One id
\* per request is enough for all of them to differ.
NanoIds == 1..NumReq

VARIABLES
    env,            \* process.env at startup: which required variables are set
    proc,           \* the node process: starting, listening or exited
    variant,        \* which handler serves /src
    SRC_FOLDER,     \* process.env.SRC_FOLDER at startup
    GIT_REPO_PATH,  \* process.env.GIT_REPO_PATH at startup (server.js const)
    cwd,            \* working directory of the node process
    envRepoPath,    \* process.env.GIT_REPO_PATH now
    remote,         \* tip of origin's branch (a commit number)
    originRef,      \* the working copy's origin/<branch> ref
    head,           \* the working copy's HEAD
    files,          \* archive files on disk: path -> file
    req,            \* per request: position in the handler and its locals
    overlapped      \* history: two /src requests were in flight together

vars == <<env, proc, variant, SRC_FOLDER, GIT_REPO_PATH, cwd, envRepoPath, remote,
          originRef, head, files, req, overlapped>>

config == <<env, variant, SRC_FOLDER, GIT_REPO_PATH, cwd>>
workingCopy == <<originRef, head>>

\* ------------------------------------------------------------------- paths
IsAbsolute(p) == Len(p) > 0 /\ p[1] = "/"

\* path.dirname
Dirname(p) ==
    IF Len(p) <= 1
    THEN (IF IsAbsolute(p) THEN <<"/">> ELSE <<".">>)
    ELSE SubSeq(p, 1, Len(p) - 1)

\* path.basename
Basename(p) ==
    IF p = <<"/">> THEN "" ELSE p[Len(p)]

\* Removes "." segments (path normalisation).
RECURSIVE Normalize(_)
Normalize(p) ==
    IF p = <<>> THEN <<>>
    ELSE IF Head(p) = "." THEN Normalize(Tail(p))
    ELSE <<Head(p)>> \o Normalize(Tail(p))

\* The directory a path names when used from directory base.
Resolve(base, p) ==
    IF IsAbsolute(p) THEN Normalize(p) ELSE Normalize(base \o p)

\* ----------------------------------------------------------------- git text
\* The full hash of commit n, as characters; the 7th differs per commit.
Digits == <<"0", "1", "2", "3", "4", "5", "6", "7", "8", "9">>
Hash(n) == <<"d", "e", "a", "d", "b", "e", Digits[n + 1], "f", "0">>

IsSpace(c) == c = "\n" \/ c = " "

\* String.prototype.trim
RECURSIVE TrimLeft(_)
TrimLeft(s) ==
    IF s # <<>> /\ IsSpace(Head(s)) THEN TrimLeft(Tail(s)) ELSE s

RECURSIVE TrimRight(_)
TrimRight(s) ==
    IF s # <<>> /\ IsSpace(s[Len(s)])
    THEN TrimRight(SubSeq(s, 1, Len(s) - 1))
    ELSE s

Trim(s) == TrimLeft(TrimRight(s))

\* String.prototype.substring(from, to), 0-based, to exclusive.
Substring(s, from, to) ==
    SubSeq(s, from + 1, IF to < Len(s) THEN to ELSE Len(s))

\* stdout of `git rev-parse HEAD`
RevParseOutput(h) == Hash(h) \o <<"\n">>

\* const gitHash = hashOutput.trim().substring(0, 7)
AbbrevLen == 7
GitHash(hashOutput) == Substring(Trim(hashOutput), 0, AbbrevLen)

\* A status that reports the branch up to date whatever the refs are (the
\* text git prints when the fetch has not updated the tracking ref).
StatusOutputStale(branch, h, o) ==
    <<  <<"On branch ", branch>>,
        <<"Your branch is up to date with 'origin/", branch, "'">>  >>
\* stdout of `git status` on the tracked branch, as phrases.
StatusOutput(branch, h, o) ==
    <<  <<"On branch ", branch>>,
        IF h = o
        THEN <<"Your branch is up to date with 'origin/", branch, "'">>
        ELSE <<"Your branch is behind 'origin/", branch, "'">>  >>

\* The marker with a branch name written into it instead of BRANCH_NAME.
IsUpToDateMaster(statusOutput) ==
    \E i \in 1..Len(statusOutput) :
        statusOutput[i] = <<"Your branch is up to date with 'origin/", "master", "'">>
\* statusOutput.includes(`Your branch is up to date with 'origin/${BRANCH_NAME}'`)
IsUpToDate(statusOutput) ==
    \E i \in 1..Len(statusOutput) :
        statusOutput[i] = <<"Your branch is up to date with 'origin/", BRANCH_NAME, "'">>

\* ------------------------------------------------------------ archive files
\* An archive path: the directory and the file name (the parts of the
\* template string).
ServerTarFileName(gitHash) == <<"src-", gitHash, ".tar.gz">>
\* The name without the nanoid: the revision alone.
AppTarFileNameNoId(gitHash, id) == <<"src-", gitHash, ".tar.gz">>
AppTarFileName(gitHash, id) == <<"src-", gitHash, "-", id, ".tar.gz">>

\* path.join(dir, name)
Join(dir, name) == [dir |-> Normalize(dir), name |-> name]

\* The revision a file name carries.
RevOfPath(p) == p.name[2]

\* What `tar -czf` of server.js archives: SRC_FOLDER as given, from
\* GIT_REPO_PATH (tar drops the leading "/" of a member name).
ServerMember(repoPath, srcFolder) ==
    [dir  |-> Resolve(repoPath, srcFolder),
     root |-> IF IsAbsolute(srcFolder) THEN Tail(srcFolder) ELSE srcFolder]

\* What `tar -czf ... -C parentFolder baseFolder` of app.js archives: the
\* base name, from the parent folder, itself taken from the process's cwd.
AppMember(processCwd, srcFolder) ==
    [dir  |-> Resolve(Resolve(processCwd, Dirname(srcFolder)), <<Basename(srcFolder)>>),
     root |-> <<Basename(srcFolder)>>]

\* The archive a finished tar leaves: the gzip header, then the members,
\* read from the source directory while the working copy was at rev.
GzHeader == "gzip"
Archive(member, rev) ==
    <<GzHeader, [root |-> member.root, dir |-> member.dir, rev |-> rev]>>
\* The file tar has only begun to write.
Partial == <<GzHeader>>
\* The file two tar processes wrote at once.
Garbled == <<GzHeader, [root |-> <<>>, dir |-> <<>>, rev |-> -1]>>

Exists(path) == path \in DOMAIN files

Remove(f, path) == [q \in (DOMAIN f) \ {path} |-> f[q]]

Put(f, path, file) == [q \in (DOMAIN f) \cup {path} |-> IF q = path THEN file ELSE f[q]]

\* ---------------------------------------------------------------- responses
NoBody == <<>>
Response(status, body) ==
    [status |-> status, body |-> body, type |-> "", disposition |-> <<>>, length |-> -1]
NoResponse == Response(0, NoBody)

\* res.status(401).send('Unauthorized')
Unauthorized == Response(401, <<"Unauthorized">>)
\* The catch block without its status: res.send alone answers 200.
CatchResponseNoStatus == Response(200, <<"Internal Server Error">>)
\* res.status(500).send('Internal Server Error')
CatchResponse == Response(500, <<"Internal Server Error">>)
\* A /health that asks for the token as /src does.
HealthHandlerGuarded(authHeader) ==
    IF authHeader = TOKEN THEN Response(200, <<"OK">>) ELSE Response(401, <<"Unauthorized">>)
\* res.status(200).send('OK')
HealthHandler(authHeader) == Response(200, <<"OK">>)
\* res.download on a path that is gone: the default error handler answers.
NotFound == Response(404, <<"Not Found">>)

\* The headers res.download sets from the file it has just stat'ed.
DownloadHeaders(path, size) ==
    [status |-> 200, body |-> NoBody, type |-> "application/gzip",
     disposition |-> <<"attachment; filename=", path.name>>, length |-> size]

\* ------------------------------------------------------------- the handler
\* if (!authHeader || authHeader !== TOKEN) return 401
Falsy(h) == h = Undefined \/ h = ""
\* The check without the comparison: any non-empty header passes.
AuthOKTruthy(authHeader) == ~Falsy(authHeader)
AuthOK(authHeader) == ~(Falsy(authHeader) \/ authHeader # TOKEN)

\* The working-copy path a request uses: server.js reads the constant set at
\* startup, app.js reads process.env when the request starts.
RepoPathInEffect == IF variant = "app" THEN envRepoPath ELSE GIT_REPO_PATH

\* git -C <path> works only in a working copy.
ValidRepo(path) == path = RepoDir

\* tarFilePath of a request that resolved gitHash
TarFilePath(repoPath, gitHash, id) ==
    IF variant = "app"
    THEN Join(tempFolder, AppTarFileName(gitHash, id))
    ELSE Join(repoPath, ServerTarFileName(gitHash))

\* The member tar archives for this handler.
TarMember(repoPath) ==
    IF variant = "app" THEN AppMember(cwd, SRC_FOLDER) ELSE ServerMember(repoPath, SRC_FOLDER)

NoHash == <<>>
NoPath == [dir |-> <<>>, name |-> <<>>]

\* A request: the route and auth header it came with, where its handler
\* stands (pc), the handler's locals, its response, and the log of the
\* commands and file-system calls it has made (cmds); fetched is the remote
\* tip its `git fetch` saw, kept until the request has resolved a revision.
NewRequest ==
    [pc |-> "new", route |-> "", auth |-> Undefined, repoPath |-> <<>>,
     fetched |-> -1, isUpToDate |-> FALSE, gitHash |-> NoHash, tarFilePath |-> NoPath,
     built |-> <<>>, resp |-> NoResponse, cmds |-> <<>>]

\* The handler has returned: its locals are gone, the response stays.
Returned(q, resp) ==
    [NewRequest EXCEPT !.pc = "done", !.route = q.route, !.auth = q.auth,
                       !.resp = resp, !.cmds = q.cmds]

InFlight(r) == req[r].pc \notin {"new", "done"}

\* The node process: its phase and, once it has exited, its exit status.
Starting == [phase |-> "starting", exitCode |-> -1]
Listening == [phase |-> "listening", exitCode |-> -1]
Exited(code) == [phase |-> "exited", exitCode |-> code]

\* A validation that takes the empty string for a value.
MissingEnvVarsAbsentOnly(e) == {key \in requiredEnvVars : e[key] = "absent"}
\* requiredEnvVars.filter((key) => !process.env[key])
MissingEnvVars(e) == {key \in requiredEnvVars : e[key] # "set"}

\* The process as it is launched, for given sets of environments, of
\* SRC_FOLDER values and of working directories; the working copy is at the
\* remote tip and no archive exists.
InitWith(envs, srcFolders, cwds) ==
    /\ env \in envs
    /\ proc = Starting
    /\ variant \in Variants
    /\ SRC_FOLDER \in srcFolders
    /\ GIT_REPO_PATH \in {RepoDir, BadDir}
    /\ cwd \in cwds
    /\ envRepoPath = GIT_REPO_PATH
    /\ remote = 0
    /\ originRef = 0
    /\ head = 0
    /\ files = << >>
    /\ req = [r \in Requests |-> NewRequest]
    /\ overlapped = FALSE

\* The configuration of the tests: SRC_FOLDER is a folder name and the
\* process runs in the working copy.
Init == InitWith({AllSet}, {<<"src">>}, {RepoDir})

\* Every configuration of SRC_FOLDER and of the working directory.
InitAnyConfig == InitWith({AllSet}, SrcFolders, Cwds)

\* Every environment the process may be launched in.
InitAnyEnv == InitWith(Envs, {<<"src">>}, {RepoDir})

\* The module's top-level code: the required variables are validated; the
\* process exits with status 1 when one is missing and listens otherwise.
Startup ==
    /\ proc = Starting
    /\ proc' = IF MissingEnvVars(env) # {} THEN Exited(1) ELSE Listening
    /\ UNCHANGED <<config, envRepoPath, remote, workingCopy, files, req, overlapped>>

\* A catch block that logs and sends nothing: the request stays open.
CatchSilent(r, step) ==
    req' = [req EXCEPT ![r] = [@ EXCEPT !.pc = "hung"]]
\* The catch block: log, answer 500, the handler ends.
Catch(r, step) ==
    req' = [req EXCEPT ![r] =
               Returned([@ EXCEPT !.cmds = IF step = "tar-exit" THEN @ ELSE Append(@, step)],
                        CatchResponse)]

\* A request arrives; requests are numbered in the order they arrive.
\* GET /health answers at once.  GET /src checks the auth header and, when
\* it is the token, issues the fetch (the handler runs to its first await).
Arrive(r) ==
    /\ proc = Listening
    /\ req[r].pc = "new"
    /\ \A q \in Requests : q < r => req[q].pc # "new"
    /\ \E route \in Routes, h \in Headers :
        LET q == [req[r] EXCEPT !.route = route, !.auth = h]
        IN req' = [req EXCEPT ![r] =
                      IF route = "/health" THEN Returned(q, HealthHandler(h))
                      ELSE IF AuthOK(h)
                      THEN [q EXCEPT !.pc = "fetch", !.repoPath = RepoPathInEffect]
                      ELSE Returned(q, Unauthorized)]
    /\ overlapped' = (overlapped \/ \E q \in Requests \ {r} : InFlight(q))
    /\ UNCHANGED <<config, proc, envRepoPath, remote, workingCopy, files>>

\* await execAsync(`git -C ${repoPath} fetch origin`)
GitFetch(r) ==
    /\ req[r].pc = "fetch"
    /\ \/ /\ ValidRepo(req[r].repoPath)
          /\ originRef' = remote
          /\ req' = [req EXCEPT ![r] = [@ EXCEPT !.pc = "status", !.fetched = remote,
                                                 !.cmds = Append(@, "fetch")]]
       \/ /\ Catch(r, "fetch")
          /\ UNCHANGED originRef
    /\ UNCHANGED <<config, proc, envRepoPath, remote, head, files, overlapped>>

\* await execAsync(`git -C ${repoPath} status`); isUpToDate; the pull or the
\* rev-parse is issued.
GitStatus(r) ==
    /\ req[r].pc = "status"
    /\ \/ /\ ValidRepo(req[r].repoPath)
          /\ LET isUpToDate == IsUpToDate(StatusOutput(BRANCH_NAME, head, originRef))
             IN req' = [req EXCEPT ![r] =
                           [@ EXCEPT !.pc = IF isUpToDate THEN "revparse" ELSE "pull",
                                     !.isUpToDate = isUpToDate,
                                     !.cmds = Append(@, "status")]]
       \/ Catch(r, "status")
    /\ UNCHANGED <<config, proc, envRepoPath, remote, workingCopy, files, overlapped>>

\* await execAsync(`git -C ${repoPath} pull origin ${BRANCH_NAME}`)
GitPull(r) ==
    /\ req[r].pc = "pull"
    /\ \/ /\ ValidRepo(req[r].repoPath)
          /\ originRef' = remote
          /\ head' = remote
          /\ req' = [req EXCEPT ![r] = [@ EXCEPT !.pc = "revparse", !.cmds = Append(@, "pull")]]
       \/ /\ Catch(r, "pull")
          /\ originRef' \in {originRef, remote}
          /\ UNCHANGED head
    /\ UNCHANGED <<config, proc, envRepoPath, remote, files, overlapped>>

\* The ids that the archive paths of a revision, on disk or in a handler,
\* carry.
UsedIds(gitHash) ==
    {p.name[4] : p \in {q \in DOMAIN files : Len(q.name) > 3 /\ q.name[2] = gitHash}}
    \cup {req[r].tarFilePath.name[4] :
             r \in {q \in Requests : /\ Len(req[q].tarFilePath.name) > 3
                                     /\ req[q].tarFilePath.name[2] = gitHash}}

\* What nanoid() may return for a path of this revision: an id such a path
\* already carries (a collision) or a new one.  The ids are opaque, so one
\* new id stands for all of them.
NanoidResults(gitHash) ==
    LET unused == NanoIds \ UsedIds(gitHash)
    IN UsedIds(gitHash) \cup {id \in unused : \A other \in unused : id <= other}

\* A resolution that first checks out the fetched tip
\* (`git checkout origin/<branch>` before the rev-parse): it moves HEAD.
GitRevParseDetach(r) ==
    /\ req[r].pc = "revparse"
    /\ \/ /\ ValidRepo(req[r].repoPath)
          /\ head' = originRef
          /\ \E id \in NanoidResults(GitHash(RevParseOutput(originRef))) :
               LET gitHash == GitHash(RevParseOutput(originRef))
               IN req' = [req EXCEPT ![r] =
                             [@ EXCEPT !.pc = "access", !.gitHash = gitHash, !.fetched = -1,
                                       !.tarFilePath = TarFilePath(req[r].repoPath, gitHash, id),
                                       !.cmds = Append(@, "rev-parse")]]
       \/ /\ Catch(r, "rev-parse")
          /\ UNCHANGED head
    /\ UNCHANGED <<config, proc, envRepoPath, remote, originRef, files, overlapped>>

\* await execAsync(`git -C ${repoPath} rev-parse HEAD`); gitHash, tarFileName
\* and tarFilePath; the existence check is issued.
GitRevParse(r) ==
    /\ req[r].pc = "revparse"
    /\ \/ /\ ValidRepo(req[r].repoPath)
          /\ \E id \in NanoidResults(GitHash(RevParseOutput(head))) :
               LET gitHash == GitHash(RevParseOutput(head))
               IN req' = [req EXCEPT ![r] =
                             [@ EXCEPT !.pc = "access", !.gitHash = gitHash, !.fetched = -1,
                                       !.tarFilePath = TarFilePath(req[r].repoPath, gitHash, id),
                                       !.cmds = Append(@, "rev-parse")]]
       \/ Catch(r, "rev-parse")
    /\ UNCHANGED <<config, proc, envRepoPath, remote, workingCopy, files, overlapped>>

\* What follows the existence check: server.js serves the file it finds and
\* builds the one it misses; app.js unlinks the file it finds and builds.
\* The existence check with its result ignored: the file is served at once.
AfterAccessNoBuild(exist) == "download"
AfterAccess(exist) ==
    IF variant = "app"
    THEN (IF exist THEN "unlink" ELSE "tar")
    ELSE (IF exist THEN "download" ELSE "tar")

\* await fs.access(tarFilePath) / await checkFileExists(tarFilePath)
FsAccess(r) ==
    /\ req[r].pc = "access"
    /\ req' = [req EXCEPT ![r] = [@ EXCEPT !.pc = AfterAccess(Exists(req[r].tarFilePath)),
                                           !.cmds = Append(@, "access")]]
    /\ UNCHANGED <<config, proc, envRepoPath, remote, workingCopy, files, overlapped>>

\* await fs.unlink(tarFilePath)   (app.js)
FsUnlink(r) ==
    /\ req[r].pc = "unlink"
    /\ \/ /\ Exists(req[r].tarFilePath)
          /\ files' = Remove(files, req[r].tarFilePath)
          /\ req' = [req EXCEPT ![r] = [@ EXCEPT !.pc = "tar", !.cmds = Append(@, "unlink")]]
       \/ /\ Catch(r, "unlink")
          /\ UNCHANGED files
    /\ UNCHANGED <<config, proc, envRepoPath, remote, workingCopy, overlapped>>

\* Whether a directory lies in the working copy.
InRepo(dir) ==
    Len(dir) >= Len(RepoDir) /\ SubSeq(dir, 1, Len(RepoDir)) = RepoDir

\* The tar command starts: it creates (or truncates) the archive file and
\* reads the source directory.
TarStart(r) ==
    /\ req[r].pc = "tar"
    /\ \/ LET path == req[r].tarFilePath
              member == TarMember(req[r].repoPath)
              busy == Exists(path) /\ files[path].writers # {}
          IN /\ files' = Put(files, path,
                             [bytes |-> Partial,
                              writers |-> (IF Exists(path) THEN files[path].writers ELSE {}) \cup {r},
                              clobbered |-> busy])
             /\ req' = [req EXCEPT ![r] =
                           [@ EXCEPT !.pc = "tarRunning",
                                     !.built = Archive(member, IF InRepo(member.dir) THEN head ELSE -1),
                                     !.cmds = Append(@, "tar")]]
       \/ /\ Catch(r, "tar")
          /\ UNCHANGED files
    /\ UNCHANGED <<config, proc, envRepoPath, remote, workingCopy, overlapped>>

\* The bytes a tar process may leave when it ends well.
TarOutcomes(r, file) ==
    IF file.clobbered THEN {req[r].built, Garbled} ELSE {req[r].built}

\* The tar command ends; on success res.download is called.
TarEnd(r) ==
    /\ req[r].pc = "tarRunning"
    /\ LET path == req[r].tarFilePath
           mine == Exists(path) /\ r \in files[path].writers
       IN \/ /\ IF mine
                THEN \E bytes \in TarOutcomes(r, files[path]) :
                        files' = [files EXCEPT ![path] =
                                     [@ EXCEPT !.bytes = bytes, !.writers = @ \ {r}]]
                ELSE UNCHANGED files
             /\ req' = [req EXCEPT ![r] = [@ EXCEPT !.pc = "download"]]
          \/ /\ IF mine
                THEN files' = [files EXCEPT ![path] = [@ EXCEPT !.writers = @ \ {r}]]
                ELSE UNCHANGED files
             /\ Catch(r, "tar-exit")
    /\ UNCHANGED <<config, proc, envRepoPath, remote, workingCopy, overlapped>>

\* res.download(tarFilePath): the file is stat'ed and the headers are set.
DownloadStat(r) ==
    /\ req[r].pc = "download"
    /\ LET path == req[r].tarFilePath
       IN req' = [req EXCEPT ![r] =
                     IF Exists(path)
                     THEN [@ EXCEPT !.pc = "streaming",
                                    !.resp = DownloadHeaders(path, Len(files[path].bytes)),
                                    !.cmds = Append(@, "download")]
                     ELSE Returned([@ EXCEPT !.cmds = Append(@, "download")], NotFound)]
    /\ UNCHANGED <<config, proc, envRepoPath, remote, workingCopy, files, overlapped>>

\* A download that removes the archive once it has been sent.
DownloadStreamCleanup(r) ==
    /\ req[r].pc = "streaming"
    /\ LET path == req[r].tarFilePath
           body == IF Exists(path)
                   THEN Substring(files[path].bytes, 0, req[r].resp.length)
                   ELSE NoBody
       IN /\ req' = [req EXCEPT ![r] =
                        [Returned(@, [@.resp EXCEPT !.body = body]) EXCEPT !.tarFilePath = path]]
          /\ files' = Remove(files, path)
    /\ UNCHANGED <<config, proc, envRepoPath, remote, workingCopy, overlapped>>

\* The file is read and piped to the response: at most the stat'ed length
\* of what the path holds by now.
DownloadStream(r) ==
    /\ req[r].pc = "streaming"
    /\ LET path == req[r].tarFilePath
           body == IF Exists(path)
                   THEN Substring(files[path].bytes, 0, req[r].resp.length)
                   ELSE NoBody
       IN req' = [req EXCEPT ![r] =
                     [Returned(@, [@.resp EXCEPT !.body = body]) EXCEPT !.tarFilePath = path]]
    /\ UNCHANGED <<config, proc, envRepoPath, remote, workingCopy, files, overlapped>>

\* Someone pushes a commit to the remote branch.
RemotePush ==
    /\ remote < MaxRev
    /\ remote' = remote + 1
    /\ UNCHANGED <<config, proc, envRepoPath, workingCopy, files, req, overlapped>>

\* process.env.GIT_REPO_PATH is assigned after startup, as the test does:
\* between two requests, before one that is still to come.
SetEnv ==
    /\ proc = Listening
    /\ \E r \in Requests : req[r].pc = "new"
    /\ \A r \in Requests : ~InFlight(r)
    /\ envRepoPath' \in {RepoDir, BadDir} \ {envRepoPath}
    /\ UNCHANGED <<config, proc, remote, workingCopy, files, req, overlapped>>

Next ==
    \/ Startup
    \/ \E r \in Requests : Arrive(r)
    \/ \E r \in Requests : GitFetch(r)
    \/ \E r \in Requests : GitStatus(r)
    \/ \E r \in Requests : GitPull(r)
    \/ \E r \in Requests : GitRevParse(r)
    \/ \E r \in Requests : FsAccess(r)
    \/ \E r \in Requests : FsUnlink(r)
    \/ \E r \in Requests : TarStart(r)
    \/ \E r \in Requests : TarEnd(r)
    \/ \E r \in Requests : DownloadStat(r)
    \/ \E r \in Requests : DownloadStream(r)
    \/ RemotePush
    \/ SetEnv

Spec == Init /\ [][Next]_vars

SpecAnyConfig == InitAnyConfig /\ [][Next]_vars

SpecAnyEnv == InitAnyEnv /\ [][Next]_vars

\* The next step of a request that is in the handler: the completion of the
\* command or file-system call it awaits.
Step(r) ==
    \/ GitFetch(r)
    \/ GitStatus(r)
    \/ GitPull(r)
    \/ GitRevParse(r)
    \/ FsAccess(r)
    \/ FsUnlink(r)
    \/ TarStart(r)
    \/ TarEnd(r)
    \/ DownloadStat(r)
    \/ DownloadStream(r)

\* Every command and file-system call a request awaits returns or fails in
\* the end, and the event loop then resumes the handler.
FairSpec == Spec /\ \A r \in Requests : WF_vars(Step(r))

\* ================================================================== claims
IsSrc(r) == req[r].route = "/src"
Done(r) == req[r].pc = "done"
Last(s) == s[Len(s)]
Has(s, x) == \E i \in 1..Len(s) : s[i] = x
InternalServerError == Response(500, <<"Internal Server Error">>)
\* A file that holds a whole archive and that no tar is writing.
Complete(file) == file.writers = {} /\ Len(file.bytes) = 2 /\ file.bytes # Garbled
\* The request is at the build: it is about to run tar or tar is running.
Building(r) == req[r].pc \in {"tar", "tarRunning"}

\* C1: a GET /src whose auth header is absent, empty or not the token is
\* answered 401 'Unauthorized' in the step it arrives in; it issues no
\* command or file-system call and leaves the working copy and the archive
\* files as they were.
C1_UnauthorizedNoEffect ==
    /\ [](\A r \in Requests :
            (IsSrc(r) /\ req[r].pc # "new" /\ req[r].auth # TOKEN) =>
                /\ Done(r)
                /\ req[r].resp = Response(401, <<"Unauthorized">>)
                /\ req[r].cmds = <<>>)
    /\ [][\A r \in Requests :
            (req[r].pc = "new" /\ req'[r].pc # "new"
             /\ req'[r].route = "/src" /\ req'[r].auth # TOKEN) =>
                /\ req'[r].pc = "done"
                /\ req'[r].resp.status = 401
                /\ UNCHANGED <<workingCopy, files>>]_vars

\* C1 witness: one request without a header, one with a wrong token, both
\* answered.
C1_Witness ==
    /\ \E r \in Requests : IsSrc(r) /\ Done(r) /\ req[r].auth = Undefined
    /\ \E r \in Requests : IsSrc(r) /\ Done(r) /\ req[r].auth = "wrong-token"

\* C2, as claimed: in a run of requests that never overlap, a request does
\* not go to the build (nor to the unlink before it) while a complete
\* archive of the revision it resolved is on disk.
C2_NoRebuild ==
    \A r \in Requests :
        (~overlapped /\ req[r].pc \in {"unlink", "tar", "tarRunning"}) =>
            ~\E p \in DOMAIN files :
                RevOfPath(p) = req[r].gitHash /\ Complete(files[p])

\* C3, as claimed: of the requests that resolved the same revision while no
\* complete archive of it exists, at most one is at the build, and two 200
\* responses for the same revision carry the same bytes.
C3_SingleBuild ==
    /\ \A r1, r2 \in Requests :
          (r1 # r2 /\ Building(r1) /\ Building(r2)
           /\ req[r1].gitHash = req[r2].gitHash) =>
              \E p \in DOMAIN files :
                  RevOfPath(p) = req[r1].gitHash /\ Complete(files[p])
    /\ \A r1, r2 \in Requests :
          (IsSrc(r1) /\ IsSrc(r2) /\ Done(r1) /\ Done(r2)
           /\ req[r1].resp.status = 200 /\ req[r2].resp.status = 200
           /\ RevOfPath(req[r1].tarFilePath) = RevOfPath(req[r2].tarFilePath)) =>
              req[r1].resp.body = req[r2].resp.body

\* The pipeline of /src, in the order of the handler's text.
StepRank(step) ==
    CASE step = "fetch" -> 1
      [] step = "status" -> 2
      [] step = "pull" -> 3
      [] step = "rev-parse" -> 4
      [] step = "access" -> 5
      [] step = "unlink" -> 6
      [] step = "tar" -> 7
      [] step = "download" -> 8

\* C4: an authenticated /src request that ended before res.download (a
\* step of it failed) was answered 500 'Internal Server Error', and only
\* such a request is; every request ran each step at most once and in the
\* pipeline's order, so the failed step is its last one.
C4_FailureEnds500 ==
    \A r \in Requests :
        /\ (IsSrc(r) /\ Done(r) /\ req[r].auth = TOKEN
            /\ (req[r].cmds = <<>> \/ Last(req[r].cmds) # "download")) =>
               /\ req[r].resp = Response(500, <<"Internal Server Error">>)
               /\ req[r].cmds # <<>>
        /\ (req[r].resp.status = 500 =>
               /\ Done(r)
               /\ Last(req[r].cmds) \in {"fetch", "status", "pull", "rev-parse", "unlink", "tar"})
        /\ \A i \in 1..(Len(req[r].cmds) - 1) :
               StepRank(req[r].cmds[i]) < StepRank(req[r].cmds[i + 1])

\* C4 witness: one request failed at the pull, another at the build.
C4_Witness ==
    /\ \E r \in Requests :
          req[r].resp = InternalServerError /\ Last(req[r].cmds) = "pull"
    /\ \E r \in Requests :
          req[r].resp = InternalServerError /\ Last(req[r].cmds) = "tar"

\* C5, as claimed: while process.env.GIT_REPO_PATH names no working copy, a
\* request in flight stays at its fetch (which fails: 500, no archive).
C5_InvalidPathNoProgress ==
    \A r \in Requests :
        (InFlight(r) /\ envRepoPath # RepoDir) => req[r].pc = "fetch"

\* C6: the fetch is the first command of a request and the status the
\* second; the step that reads the status goes to the pull exactly when
\* the text lacks the marker for BRANCH_NAME, and to the rev-parse when the
\* working copy is at the remote tip; a pull is only run from there.
C6_SyncDecision ==
    /\ [](\A r \in Requests :
            /\ (Len(req[r].cmds) >= 1 => req[r].cmds[1] = "fetch")
            /\ (Len(req[r].cmds) >= 2 => req[r].cmds[2] = "status")
            /\ (Has(req[r].cmds, "pull") => req[r].cmds[3] = "pull"))
    /\ [][\A r \in Requests :
            (req[r].pc = "status" /\ req'[r].pc # "status" /\ req'[r].resp.status # 500) =>
                LET text == StatusOutput("main", head, originRef)
                    marker == \E i \in 1..Len(text) :
                                 text[i] = <<"Your branch is up to date with 'origin/", "main", "'">>
                IN /\ req'[r].pc = "pull" <=> ~marker
                   /\ req'[r].pc = "revparse" <=> marker
                   /\ head = remote => req'[r].pc = "revparse"]_vars
    /\ [][\A r \in Requests :
            (Has(req'[r].cmds, "pull") /\ ~Has(req[r].cmds, "pull")) => req[r].pc = "pull"]_vars

\* C6 witness: one request pulled, another went from the status to the
\* rev-parse.
C6_Witness ==
    /\ \E r \in Requests :
          Len(req[r].cmds) >= 4 /\ SubSeq(req[r].cmds, 1, 4) = <<"fetch", "status", "pull", "rev-parse">>
    /\ \E r \in Requests :
          Len(req[r].cmds) >= 3 /\ SubSeq(req[r].cmds, 1, 3) = <<"fetch", "status", "rev-parse">>

\* C7, as claimed: after a /src request answered 200, the file it served is
\* src-<7 characters of a commit's hash>.tar.gz in the working-copy
\* directory, and it exists.
C7_ArchivePath ==
    \A r \in Requests :
        (IsSrc(r) /\ Done(r) /\ req[r].resp.status = 200) =>
            \E n \in Revs :
                LET path == [dir |-> RepoDir,
                             name |-> <<"src-", SubSeq(Hash(n), 1, 7), ".tar.gz">>]
                IN req[r].tarFilePath = path /\ path \in DOMAIN files

\* C8: a GET /health is answered 200 'OK' in the step it arrives in,
\* whatever its auth header and whatever the /src requests are doing, and
\* it leaves the working copy and the archive files as they were.
C8_HealthAlwaysOK ==
    /\ [](\A r \in Requests :
            (req[r].route = "/health") =>
                /\ Done(r)
                /\ req[r].resp = Response(200, <<"OK">>)
                /\ req[r].cmds = <<>>)
    /\ [][\A r \in Requests :
            (req[r].pc = "new" /\ req'[r].route = "/health") =>
                /\ req'[r].pc = "done"
                /\ req'[r].resp.status = 200
                /\ UNCHANGED <<workingCopy, files>>]_vars

\* C8 witness: a /health without the token was answered while a /src
\* request was running tar.
C8_Witness ==
    \E r, q \in Requests :
        /\ req[r].route = "/health" /\ Done(r) /\ req[r].auth = Undefined
        /\ req[q].pc = "tarRunning"

\* C9, as claimed: every complete archive has the base name of SRC_FOLDER
\* as the root of its entries and was read from SRC_FOLDER of the working
\* copy.
C9_ArchiveRoot ==
    \A p \in DOMAIN files :
        Complete(files[p]) =>
            /\ files[p].bytes[2].root = <<SRC_FOLDER[Len(SRC_FOLDER)]>>
            /\ files[p].bytes[2].dir =
                  (IF SRC_FOLDER[1] = "/" THEN SRC_FOLDER
                   ELSE IF SRC_FOLDER = <<".">> THEN RepoDir
                   ELSE RepoDir \o SRC_FOLDER)

\* C10, as claimed: a 200 response of /src is a gzip attachment whose
\* Content-Length is the number of bytes sent, and what is sent is a whole
\* archive.
C10_DownloadComplete ==
    \A r \in Requests :
        (IsSrc(r) /\ Done(r) /\ req[r].resp.status = 200) =>
            /\ req[r].resp.type = "application/gzip"
            /\ req[r].resp.disposition[1] = "attachment; filename="
            /\ req[r].resp.length = Len(req[r].resp.body)
            /\ Len(req[r].resp.body) = 2

\* C11: a process launched with one of GIT_REPO_PATH, BRANCH_NAME, SRC_FOLDER
\* and TOKEN absent or empty leaves the starting phase by exiting with
\* status 1, and no request is ever handled by it; a process that has
\* handled a request is listening with all four set; a process exits only
\* this way.
C11_StartupValidation ==
    /\ [](/\ (proc.phase = "listening" => \A key \in requiredEnvVars : env[key] = "set")
          /\ ((\E r \in Requests : req[r].pc # "new") =>
                 /\ proc.phase = "listening"
                 /\ \A key \in requiredEnvVars : env[key] = "set")
          /\ (proc.phase = "exited" =>
                 /\ proc.exitCode = 1
                 /\ \E key \in requiredEnvVars : env[key] \in {"absent", "empty"}
                 /\ \A r \in Requests : req[r].pc = "new"))
    /\ [][(proc.phase = "starting" /\ proc'.phase # "starting"
           /\ \E key \in requiredEnvVars : env[key] \in {"absent", "empty"}) =>
              proc'.phase = "exited" /\ proc'.exitCode = 1]_vars

\* C11 witness: a process launched with only TOKEN empty has exited.
C11_Witness ==
    /\ proc.phase = "exited"
    /\ env["TOKEN"] = "empty"
    /\ \A key \in requiredEnvVars \ {"TOKEN"} : env[key] = "set"

\* The positions a step of the handler may lead to from each position.
C12_Successors(pc) ==
    CASE pc = "new" -> {"fetch", "done"}
      [] pc = "fetch" -> {"status", "done"}
      [] pc = "status" -> {"pull", "revparse", "done"}
      [] pc = "pull" -> {"revparse", "done"}
      [] pc = "revparse" -> {"access", "done"}
      [] pc = "access" -> {"unlink", "tar", "download"}
      [] pc = "unlink" -> {"tar", "done"}
      [] pc = "tar" -> {"tarRunning", "done"}
      [] pc = "tarRunning" -> {"download", "done"}
      [] pc = "download" -> {"streaming", "done"}
      [] pc = "streaming" -> {"done"}
      [] pc = "done" -> {}

\* C12: a /src request is at one step at a time and takes the steps in the
\* handler's order: a request at a step has the token and has completed
\* exactly the steps before it (fetch, status, the pull if any, rev-parse,
\* the existence check, the build on a miss, then the download), and every
\* step leads to the next one or ends the request; from the existence check
\* a request goes to the download only on a hit and to the build (or the
\* unlink before it) otherwise.
C12_StepsSequential ==
    /\ [](\A r \in Requests :
            LET pc == req[r].pc
                cmds == req[r].cmds
            IN /\ (InFlight(r) => req[r].auth = "test-token" /\ req[r].route = "/src")
               /\ (pc = "fetch" => cmds = <<>>)
               /\ (pc = "status" => cmds = <<"fetch">>)
               /\ (pc = "pull" => cmds = <<"fetch", "status">>)
               /\ (pc = "revparse" =>
                      cmds \in {<<"fetch", "status">>, <<"fetch", "status", "pull">>})
               /\ (pc = "access" =>
                      cmds \in {<<"fetch", "status", "rev-parse">>,
                                <<"fetch", "status", "pull", "rev-parse">>})
               /\ (pc = "unlink" => Last(cmds) = "access")
               /\ (pc = "tar" => Last(cmds) \in {"access", "unlink"})
               /\ (pc = "tarRunning" => Last(cmds) = "tar")
               /\ (pc = "download" => Last(cmds) \in {"access", "tar"})
               /\ (pc = "streaming" => Last(cmds) = "download"))
    /\ [][\A r \in Requests :
            /\ (req'[r].pc # req[r].pc => req'[r].pc \in C12_Successors(req[r].pc))
            /\ (req[r].pc = "access" /\ req'[r].pc = "download" =>
                   req[r].tarFilePath \in DOMAIN files)
            /\ (req[r].pc = "access" /\ req'[r].pc \in {"tar", "unlink"} =>
                   (req'[r].pc = "unlink") = (req[r].tarFilePath \in DOMAIN files))]_vars

\* C12 witness: a request is streaming after it went through every step,
\* the pull and the build included.
C12_Witness ==
    \E r \in Requests :
        /\ req[r].pc = "streaming"
        /\ req[r].cmds = <<"fetch", "status", "pull", "rev-parse", "access", "tar", "download">>

\* C13, as claimed: the members a build reads are those of the revision
\* the request resolved and named the archive by, and every complete
\* archive file holds the revision its name carries.
C13_ArchiveAtResolvedRevision ==
    /\ \A r \in Requests :
          req[r].pc = "tarRunning" =>
              /\ req[r].built[2].rev \in Revs
              /\ GitHash(RevParseOutput(req[r].built[2].rev)) = req[r].gitHash
    /\ \A p \in DOMAIN files :
          Complete(files[p]) =>
              /\ files[p].bytes[2].rev \in Revs
              /\ GitHash(RevParseOutput(files[p].bytes[2].rev)) = RevOfPath(p)

\* C14, as claimed, in its weakest form: at most one request at a time is
\* running the pull on the shared working copy.
C14_SyncSerialized ==
    \A r1, r2 \in Requests :
        (req[r1].pc = "pull" /\ req[r2].pc = "pull") => r1 = r2

\* C15, as claimed: when a request's existence check finds the archive of
\* its revision and the request goes straight to the download, no build is
\* writing that file.
C15_NoHitOnUnfinishedBuild ==
    [][\A r \in Requests :
          (req[r].pc = "access" /\ req'[r].pc = "download") =>
              files[req[r].tarFilePath].writers = {}]_vars

\* C16: the working copy (its HEAD and its origin ref) changes only in a
\* step that completes a request's fetch or pull; a step of a request that
\* is at the rev-parse, the existence check, the unlink, the build or the
\* download leaves the working copy as it is and changes no file but the
\* one at the request's own archive path.
C16_WorkingCopyFrame ==
    [][/\ (workingCopy' # workingCopy =>
              \E r \in Requests :
                  req[r].pc \in {"fetch", "pull"} /\ req'[r].pc # req[r].pc)
       /\ \A r \in Requests :
              (req[r].pc \in {"revparse", "access", "unlink", "tar", "tarRunning",
                              "download", "streaming"}
               /\ req'[r] # req[r]) =>
                  /\ originRef' = originRef
                  /\ head' = head
                  /\ \A p \in (DOMAIN files) \cup (DOMAIN files') :
                        p # req[r].tarFilePath =>
                            p \in DOMAIN files /\ p \in DOMAIN files' /\ files'[p] = files[p]]_vars

\* C16 witness: a request has resolved, built and is streaming while the
\* working copy is behind the fetched tip (another request's fetch moved the
\* origin ref after this one's sync).
C16_Witness ==
    \E r \in Requests :
        /\ req[r].pc = "streaming"
        /\ Has(req[r].cmds, "tar")
        /\ head # originRef

====
